---- MODULE Spec2Model ----
(***************************************************************************)
(* Cross-file definition-use analysis of tinymist-query                    *)
(* (crates/tinymist-query/src/analysis/def_use.rs).                        *)
(*                                                                         *)
(* The recursive procedure get_def_use_inner is modelled with an explicit  *)
(* call stack of DefUseCollector frames.  `call' holds the argument of an  *)
(* invocation of get_def_use_inner that has been made and not yet entered, *)
(* `ret' the value an invocation has returned and its caller has not yet   *)
(* consumed.  A hierarchy is a sequence of nodes; the position of a scan   *)
(* in it is the path of child indices from the root list.  `doc' is the    *)
(* document the serializer produced last since the last request, `prev'    *)
(* the tables of the pass before the current one.                          *)
(***************************************************************************)
EXTENDS Integers, Sequences, FiniteSets, TLC

VARIABLES files, cache, searched, stack, call, ret, phase, root, result, reqs, doc, prev

vars == <<files, cache, searched, stack, call, ret, phase, root, result, reqs, doc,
          prev>>

(***************************************************************************)
(* Bounds                                                                  *)
(***************************************************************************)
MaxRequests == 2
MaxDepth == 4

(***************************************************************************)
(* Option values, maps                                                     *)
(***************************************************************************)
NoneV == [some |-> FALSE]
Some(v) == [some |-> TRUE, val |-> v]

EmptyMap == <<>>
MapPut(m, k, v) == [x \in (DOMAIN m) \cup {k} |-> IF x = k THEN v ELSE m[x]]
MapValues(m) == {m[k] : k \in DOMAIN m}
Perms(S) == {s \in [1..Cardinality(S) -> S] : {s[i] : i \in DOMAIN s} = S}

(***************************************************************************)
(* Files, import paths and hierarchies                                     *)
(***************************************************************************)
Files == {"A", "B", "C"}

NextFile(f) == CASE f = "A" -> "B" [] f = "B" -> "C" [] OTHER -> "A"
PrevFile(f) == CASE f = "A" -> "C" [] f = "B" -> "A" [] OTHER -> "B"

\* find_source_by_import_path(world, current_id, p): the target file of an
\* import path, relative to the importing file, or none.
FindSourceByImportPath(current_id, p) ==
    CASE p = "next" -> Some(NextFile(current_id))
      [] p = "prev" -> Some(PrevFile(current_id))
      [] p = "self" -> Some(current_id)
      [] OTHER -> NoneV

Rng(s, e) == [start |-> s, end |-> e]
IdentRef(n, r) == [name |-> n, range |-> r]
IdentDef(n, k, r) == [name |-> n, kind |-> k, range |-> r]

NoTarget == IdentRef("", Rng(0, 0))
NoSrc == [type |-> "None", path |-> ""]
PathSrc(p) == [type |-> "Path", path |-> p]
ExprSrc == [type |-> "Expr", path |-> ""]

\* LexicalHierarchy nodes.
Leaf(k, n, s) ==
    [kind |-> k, name |-> n, range |-> Rng(s, s + 1), target |-> NoTarget,
     src |-> NoSrc, children |-> <<>>]
AliasNode(n, s, tn, ts) ==
    [kind |-> "Alias", name |-> n, range |-> Rng(s, s + 1),
     target |-> IdentRef(tn, Rng(ts, ts + 1)), src |-> NoSrc, children |-> <<>>]
BlockNode(s, ch) ==
    [kind |-> "Block", name |-> "", range |-> Rng(s, s + 1), target |-> NoTarget,
     src |-> NoSrc, children |-> ch]
ModuleNode(s, src, ch) ==
    [kind |-> "Module", name |-> "", range |-> Rng(s, s + 1), target |-> NoTarget,
     src |-> src, children |-> ch]

\* let x = 1; let y() = ..; { let x = 2; use(x); <y>; let z };
\* use(x); @y; use(z); @x; <x>; use(x); let x = 3
LocalTree ==
    << Leaf("Variable", "x", 0),
       Leaf("Function", "y", 3),
       BlockNode(5, << Leaf("Variable", "x", 10), Leaf("ValRef", "x", 20),
                       Leaf("Label", "y", 22), Leaf("Variable", "z", 24) >>),
       Leaf("ValRef", "x", 30),
       Leaf("LabelRef", "y", 40),
       Leaf("ValRef", "z", 50),
       Leaf("LabelRef", "x", 51),
       Leaf("Label", "x", 52),
       Leaf("ValRef", "x", 54),
       Leaf("Variable", "x", 60) >>

\* import "next": x; use(x); { import "next": y as z, z; use(z) };
\* import "next": x; import "next": *
NamedImportTree ==
    << ModuleNode(5, PathSrc("next"), << Leaf("Ident", "x", 10) >>),
       Leaf("ValRef", "x", 15),
       BlockNode(18, << ModuleNode(19, PathSrc("next"),
                                   << AliasNode("z", 25, "y", 20),
                                      Leaf("Ident", "z", 30) >>),
                        Leaf("ValRef", "z", 35) >>),
       ModuleNode(55, PathSrc("next"), << Leaf("Ident", "x", 60) >>),
       ModuleNode(68, PathSrc("next"), << Leaf("Star", "", 70) >>) >>

\* import "next": *; use(x); let y
StarImportTree ==
    << ModuleNode(5, PathSrc("next"), << Leaf("Star", "", 10) >>),
       Leaf("ValRef", "x", 20),
       Leaf("Variable", "y", 30) >>

\* let x; { import "prev": y, * }; use(y); import "prev": x; import "prev" as y
BackEdgeTree ==
    << Leaf("Variable", "x", 0),
       BlockNode(5, << ModuleNode(8, PathSrc("prev"),
                                  << Leaf("Ident", "y", 10), Leaf("Star", "", 15) >>) >>),
       Leaf("ValRef", "y", 17),
       ModuleNode(18, PathSrc("prev"),
                  << Leaf("Ident", "x", 20), Leaf("ModuleAlias", "y", 30) >>) >>

\* import { import "self": y }: x, *; import "missing": x as y;
\* import "missing"; import "next"; import "next": y; use(y)
MiscTree ==
    << ModuleNode(1, ExprSrc,
                  << ModuleNode(2, PathSrc("self"), << Leaf("Ident", "y", 3) >>),
                     Leaf("Ident", "x", 4), Leaf("Star", "", 5) >>),
       ModuleNode(8, PathSrc("missing"),
                  << AliasNode("y", 25, "x", 20), Leaf("PathVar", "y", 30) >>),
       ModuleNode(48, PathSrc("next"),
                  << Leaf("PathVar", "x", 50), Leaf("Ident", "y", 60) >>),
       Leaf("ValRef", "y", 70) >>

Hierarchies ==
    {LocalTree, NamedImportTree, StarImportTree, BackEdgeTree, MiscTree}

\* get_lexical_hierarchy(source, DefUse): the hierarchy of a file, or none
\* when it cannot be produced.
GetLexicalHierarchy(f) == files[f]

(***************************************************************************)
(* DefUseInfo                                                              *)
(***************************************************************************)
DefaultInfo ==
    [ident_defs |-> <<>>,
     external_refs |-> EmptyMap,
     ident_refs |-> EmptyMap,
     redefine_current |-> NoneV,
     ident_redefines |-> EmptyMap,
     undefined_refs |-> <<>>,
     exports_refs |-> <<>>,
     exports_defs |-> EmptyMap]

\* A slot of ident_defs: the key (fid, ref) and the IdentDef stored under it.
Slot(fid, ref, def) == [fid |-> fid, ref |-> ref, def |-> def]

\* Position (1-based) of a key in ident_defs, 0 when absent.
IndexOfKey(defs, fid, ref) ==
    LET at == {i \in 1..Len(defs) : defs[i].fid = fid /\ defs[i].ref = ref}
    IN IF at = {} THEN 0 ELSE CHOOSE i \in at : TRUE

\* The key is not looked up: every insertion takes a new slot.
InsertFullAppend(defs, fid, ref, def) ==
    [defs |-> Append(defs, Slot(fid, ref, def)), id |-> Len(defs)]

\* IndexMap::insert_full: the value of an existing key is replaced in place
\* and its index returned, a new key is appended.
InsertFull(defs, fid, ref, def) ==
    LET i == IndexOfKey(defs, fid, ref) IN
    IF i > 0
    THEN [defs |-> [defs EXCEPT ![i] = Slot(fid, ref, def)], id |-> i - 1]
    ELSE [defs |-> Append(defs, Slot(fid, ref, def)), id |-> Len(defs)]

\* Query API
GetRef(info, ident) ==
    IF ident \in DOMAIN info.ident_refs THEN Some(info.ident_refs[ident]) ELSE NoneV

\* The id is taken for a 1-based position.
GetDefByIdOffByOne(info, id) ==
    IF id \in 1..Len(info.ident_defs)
    THEN Some([fid |-> info.ident_defs[id].fid, def |-> info.ident_defs[id].def])
    ELSE NoneV

GetDefById(info, id) ==
    IF id + 1 \in 1..Len(info.ident_defs)
    THEN Some([fid |-> info.ident_defs[id + 1].fid, def |-> info.ident_defs[id + 1].def])
    ELSE NoneV

GetDef(info, fid, ident) ==
    LET i == IndexOfKey(info.ident_defs, fid, ident) IN
    IF i > 0
    THEN Some([id |-> i - 1, def |-> info.ident_defs[i].def])
    ELSE IF info.redefine_current = Some(fid)
              /\ ident \in DOMAIN info.ident_redefines
              /\ info.ident_redefines[ident] + 1 \in 1..Len(info.ident_defs)
         THEN Some([id |-> info.ident_redefines[ident],
                    def |-> info.ident_defs[info.ident_redefines[ident] + 1].def])
         ELSE NoneV

GetRefs(info, id) == {k \in DOMAIN info.ident_refs : info.ident_refs[k] = id}

GetExternalRefs(info, ext_id, ext_name) ==
    IF <<ext_id, ext_name>> \in DOMAIN info.external_refs
    THEN info.external_refs[<<ext_id, ext_name>>]
    ELSE <<>>

IsExported(info, id) == \E i \in 1..Len(info.exports_refs) : info.exports_refs[i] = id


(***************************************************************************)
(* SnapshotMap (crate::adt::snapshot_map): a map with snapshot / rollback  *)
(***************************************************************************)
SmInsert(m, k, v) == MapPut(m, k, v)
SmGet(m, k) == IF k \in DOMAIN m THEN Some(m[k]) ELSE NoneV
SmValues(m) == MapValues(m)

(***************************************************************************)
(* DefUseCollector                                                         *)
(***************************************************************************)
\* The collector built by get_def_use_inner.  `snaps' holds the id_snap of
\* every enter() that has not returned yet, `path' the position of scan,
\* `scan_res' whether scan returned Some(()).
NewCollector(current_id) ==
    [current_id |-> current_id,
     info |-> [DefaultInfo EXCEPT !.redefine_current = Some(current_id)],
     id_scope |-> EmptyMap,
     label_scope |-> EmptyMap,
     snaps |-> <<>>,
     ext_src |-> NoneV,
     path |-> <<1>>,
     pc |-> "scan",
     scan_res |-> TRUE]

RECURSIVE Siblings(_, _)
Siblings(list, path) ==
    IF Len(path) <= 1 THEN list
    ELSE Siblings(list[Head(path)].children, Tail(path))

Top == stack[Len(stack)]
Tree(fr) == GetLexicalHierarchy(fr.current_id).val
Sibs(fr) == Siblings(Tree(fr), fr.path)
Idx(fr) == fr.path[Len(fr.path)]
AtNode(fr) == Idx(fr) <= Len(Sibs(fr))
Cur(fr) == Sibs(fr)[Idx(fr)]
ParentPath(fr) == SubSeq(fr.path, 1, Len(fr.path) - 1)
Parent(fr) == Siblings(Tree(fr), ParentPath(fr))[fr.path[Len(fr.path) - 1]]

Advance(path) == [path EXCEPT ![Len(path)] = @ + 1]
Descend(path) == Append(path, 1)
Ascend(path) == Advance(SubSeq(path, 1, Len(path) - 1))

NodeRef(e) == IdentRef(e.name, e.range)

\* Labels are bound in the Value scope as well.
InsertValueOnly(fr, ns, e) ==
    LET r == InsertFull(fr.info.ident_defs, fr.current_id, NodeRef(e),
                        IdentDef(e.name, e.kind, e.range))
    IN [fr |-> [fr EXCEPT !.info.ident_defs = r.defs,
                          !.id_scope = SmInsert(@, e.name, r.id)],
        id |-> r.id]

\* fn insert
Insert(fr, ns, e) ==
    LET r == InsertFull(fr.info.ident_defs, fr.current_id, NodeRef(e),
                        IdentDef(e.name, e.kind, e.range))
        f1 == [fr EXCEPT !.info.ident_defs = r.defs]
    IN [fr |-> IF ns = "Label"
               THEN [f1 EXCEPT !.label_scope = SmInsert(@, e.name, r.id)]
               ELSE [f1 EXCEPT !.id_scope = SmInsert(@, e.name, r.id)],
        id |-> r.id]

\* A reference without a binding is dropped.
InsertIdentRefDrop(fr, ns, id_ref) ==
    LET snap == IF ns = "Label" THEN fr.label_scope ELSE fr.id_scope
        got == SmGet(snap, id_ref.name)
    IN IF got.some
       THEN [fr EXCEPT !.info.ident_refs = MapPut(@, id_ref, got.val)]
       ELSE fr

\* fn insert_ident_ref
InsertIdentRef(fr, ns, id_ref) ==
    LET snap == IF ns = "Label" THEN fr.label_scope ELSE fr.id_scope
        got == SmGet(snap, id_ref.name)
    IN IF got.some
       THEN [fr EXCEPT !.info.ident_refs = MapPut(@, id_ref, got.val)]
       ELSE [fr EXCEPT !.info.undefined_refs = Append(@, id_ref)]

\* fn insert_ref
InsertRef(fr, ns, e) == InsertIdentRef(fr, ns, NodeRef(e))

\* No redefinition entry is made.
InsertRedefNone(fr, e) == fr

\* fn insert_redef
InsertRedef(fr, e) ==
    LET got == SmGet(fr.id_scope, e.name) IN
    IF got.some
    THEN [fr EXCEPT !.info.ident_redefines = MapPut(@, NodeRef(e), got.val)]
    ELSE fr

\* The local DefId is not recorded.
InsertExternNoId(fr, name, range, redefine_id) ==
    IF fr.ext_src.some
    THEN [fr EXCEPT !.info.external_refs =
              MapPut(@, <<fr.ext_src.val, Some(name)>>,
                     <<[id |-> NoneV, ref |-> IdentRef(name, range)]>>)]
    ELSE fr

\* fn insert_extern
InsertExtern(fr, name, range, redefine_id) ==
    IF fr.ext_src.some
    THEN [fr EXCEPT !.info.external_refs =
              MapPut(@, <<fr.ext_src.val, Some(name)>>,
                     <<[id |-> redefine_id, ref |-> IdentRef(name, range)]>>)]
    ELSE fr

\* fn insert_module
InsertModule(fr, ns, e) ==
    LET f1 == Insert(fr, ns, e).fr IN
    IF f1.ext_src.some
    THEN [f1 EXCEPT !.info.external_refs =
              MapPut(@, <<f1.ext_src.val, NoneV>>,
                     <<[id |-> NoneV, ref |-> NodeRef(e)]>>)]
    ELSE f1

\* The slot is keyed by the file imported from, not by the owning file.
ImportFromExporterKey(fr, external_info, v) ==
    LET ext == external_info.ident_defs[v + 1]
        ext_sym == ext.def
        ext_ref == IdentRef(ext_sym.name, ext_sym.range)
        r == InsertFull(fr.info.ident_defs, external_info.redefine_current.val,
                        ext_ref, ext_sym)
    IN [fr EXCEPT !.info.ident_defs = r.defs,
                  !.id_scope = SmInsert(@, ext_sym.name, r.id)]

\* The name is bound to the exporter's DefId instead of the local one.
ImportFromForeignId(fr, external_info, v) ==
    LET ext == external_info.ident_defs[v + 1]
        ext_sym == ext.def
        ext_ref == IdentRef(ext_sym.name, ext_sym.range)
        r == InsertFull(fr.info.ident_defs, ext.fid, ext_ref, ext_sym)
    IN [fr EXCEPT !.info.ident_defs = r.defs,
                  !.id_scope = SmInsert(@, ext_sym.name, v)]

\* fn import_from
ImportFrom(fr, external_info, v) ==
    LET ext == external_info.ident_defs[v + 1]
        ext_sym == ext.def
        ext_ref == IdentRef(ext_sym.name, ext_sym.range)
        r == InsertFull(fr.info.ident_defs, ext.fid, ext_ref, ext_sym)
    IN [fr EXCEPT !.info.ident_defs = r.defs,
                  !.id_scope = SmInsert(@, ext_sym.name, r.id)]

\* Only the first export is copied.
ImportFirst(fr, external_info, ids) ==
    IF ids = <<>> THEN fr ELSE ImportFrom(fr, external_info, Head(ids))

\* The loop of the Star arm: import_from for every id of exports_refs in order.
RECURSIVE ImportAll(_, _, _)
ImportAll(fr, external_info, ids) ==
    IF ids = <<>> THEN fr
    ELSE ImportAll(ImportFrom(fr, external_info, Head(ids)), external_info, Tail(ids))

\* Every slot of the table is exported.
CalcExportsAll(fr, order) ==
    [fr EXCEPT !.info.exports_refs = [i \in 1..Len(fr.info.ident_defs) |-> i - 1],
               !.info.exports_defs = fr.id_scope]

\* fn calc_exports, given the order in which the scope yields its values
CalcExports(fr, order) ==
    [fr EXCEPT !.info.exports_refs = order,
               !.info.exports_defs = fr.id_scope]

\* The scope is not restored.
EnterNoRollback(fr) == [fr EXCEPT !.snaps = SubSeq(@, 1, Len(@) - 1)]

\* fn enter: the snapshot taken before f and the rollback after it
EnterSnapshot(fr) == [fr EXCEPT !.snaps = Append(@, fr.id_scope)]
EnterRollback(fr) ==
    [fr EXCEPT !.id_scope = fr.snaps[Len(fr.snaps)],
               !.snaps = SubSeq(@, 1, Len(@) - 1)]

\* The scope left when `?' takes None out of scan through every enter()
\* on the way: each rolls back, the outermost last.
RECURSIVE Unwind(_)
Unwind(fr) == IF fr.snaps = <<>> THEN fr ELSE Unwind(EnterRollback(fr))

\* The None of scan is passed on as with `collector.scan(&e)?'.
ScanReturnStrict(fr) == IF fr.scan_res THEN Some(fr.info) ELSE NoneV

\* The value get_def_use_inner returns after a scan (lines 161, 166).
ScanReturn(fr) == Some(fr.info)

\* compute_def_use(|| res): the cache cell is set once.
ComputeDefUse(c, f, res) == IF c[f].some THEN c ELSE [c EXCEPT ![f] = res]

(***************************************************************************)
(* impl Serialize for DefUseSnapshot                                       *)
(***************************************************************************)
\* String order of the names that occur.
Names == <<"", "<nil>", "x", "y", "z">>
NameRank(n) == CHOOSE i \in 1..Len(Names) : Names[i] = n

\* impl Ord for IdentRef: by name, then by the start of the range.
IdentRefLeq(a, b) ==
    IF a.name # b.name THEN NameRank(a.name) < NameRank(b.name)
    ELSE a.range.start <= b.range.start

\* The vector is left in the order it was filled.
SortRefsNone(v) == v

\* Vec::sort (stable): an element goes behind every element not greater.
RECURSIVE SortRefs(_)
SortRefs(v) ==
    IF v = <<>> THEN <<>>
    ELSE LET init == SortRefs(SubSeq(v, 1, Len(v) - 1))
             last == v[Len(v)]
             k == Cardinality({i \in 1..Len(init) : IdentRefLeq(init[i], last)})
         IN SubSeq(init, 1, k) \o <<last>> \o SubSeq(init, k + 1, Len(init))

\* `references': for every DefId the vector of the references mapping to
\* it, filled in the iteration order of ident_refs, which is any order.
RECURSIVE ReferenceVecs(_, _)
ReferenceVecs(info, n) ==
    IF n = 0 THEN {<<>>}
    ELSE {Append(m, v) : m \in ReferenceVecs(info, n - 1),
                         v \in Perms(GetRefs(info, n - 1))}

\* format!("{}@{}", ident_ref.1, path): the parts the key is written from.
EntryKey(slot) ==
    [nil |-> FALSE, name |-> slot.ref.name, start |-> slot.ref.range.start,
     end |-> slot.ref.range.end, path |-> slot.fid]
NilKey == [nil |-> TRUE, name |-> "<nil>", start |-> 0, end |-> 0, path |-> ""]

DefUseEntry(key, def, refs) == [key |-> key, def |-> def, refs |-> refs]

\* fn serialize, given the vectors of `references' before they are sorted
SerializeSnapshot(info, references) ==
    [k \in 1..Len(info.ident_defs) |->
        DefUseEntry(EntryKey(info.ident_defs[k]), info.ident_defs[k].def,
                    SortRefs(references[k]))]
    \o (IF info.undefined_refs # <<>>
        THEN << DefUseEntry(NilKey, IdentDef("<nil>", "Block", Rng(0, 0)),
                            SortRefs(info.undefined_refs)) >>
        ELSE <<>>)

(***************************************************************************)
(* Initial state: any assignment of a hierarchy (or of none, for a file    *)
(* whose hierarchy cannot be produced) to the files, an empty cache.       *)
(***************************************************************************)
Init ==
    /\ files \in [Files -> {Some(t) : t \in Hierarchies} \cup {NoneV}]
    /\ cache = [f \in Files |-> NoneV]
    /\ searched = {}
    /\ stack = <<>>
    /\ call = <<>>
    /\ ret = <<>>
    /\ phase = "idle"
    /\ root = "A"
    /\ result = NoneV
    /\ reqs = 0
    /\ doc = NoneV
    /\ prev = [root |-> "A", tables |-> [f \in Files |-> NoneV]]

(***************************************************************************)
(* get_def_use / get_def_use_inner                                         *)
(***************************************************************************)
\* The cache is not consulted.
CachedDefUseNever(f) == NoneV

\* c.def_use(): the table installed in the cache for a file, if any.
CachedDefUse(f) == cache[f]

\* The visited set is not consulted.
AlreadySearchedNever(f) == FALSE

\* !ctx.searched.insert(current_id): the file is already in the visited set.
AlreadySearched(f) == f \in searched

\* pub fn get_def_use: a top-level request with a fresh visited set.
GetDefUse(f) ==
    /\ phase = "idle"
    /\ reqs < MaxRequests
    /\ phase' = "running"
    /\ root' = f
    /\ reqs' = reqs + 1
    /\ searched' = {}
    /\ call' = <<f>>
    /\ doc' = NoneV
    /\ UNCHANGED <<prev, files, cache, stack, ret, result>>

\* get_def_use_inner, `if let Some(info) = c.def_use()'
CacheHit ==
    /\ call # <<>>
    /\ CachedDefUse(call[1]).some
    /\ ret' = <<CachedDefUse(call[1])>>
    /\ call' = <<>>
    /\ UNCHANGED <<prev, doc, files, cache, searched, stack, phase, root, result, reqs>>

\* get_def_use_inner, `if !ctx.searched.insert(current_id)'
CycleHit ==
    /\ call # <<>>
    /\ ~CachedDefUse(call[1]).some
    /\ AlreadySearched(call[1])
    /\ ret' = <<NoneV>>
    /\ call' = <<>>
    /\ UNCHANGED <<prev, doc, files, cache, searched, stack, phase, root, result, reqs>>

\* get_def_use_inner, `get_lexical_hierarchy(..)?' yielding none
NoHierarchy ==
    /\ call # <<>>
    /\ ~CachedDefUse(call[1]).some
    /\ ~AlreadySearched(call[1])
    /\ ~GetLexicalHierarchy(call[1]).some
    /\ searched' = searched \cup {call[1]}
    /\ ret' = <<NoneV>>
    /\ call' = <<>>
    /\ UNCHANGED <<prev, doc, files, cache, stack, phase, root, result, reqs>>

\* get_def_use_inner, the collector is built and the scan starts
Begin ==
    /\ call # <<>>
    /\ ~CachedDefUse(call[1]).some
    /\ ~AlreadySearched(call[1])
    /\ GetLexicalHierarchy(call[1]).some
    /\ Len(stack) < MaxDepth
    /\ searched' = searched \cup {call[1]}
    /\ stack' = Append(stack, NewCollector(call[1]))
    /\ call' = <<>>
    /\ UNCHANGED <<prev, doc, files, cache, ret, phase, root, result, reqs>>

(***************************************************************************)
(* scan, one action per arm                                                *)
(***************************************************************************)
Scanning ==
    /\ phase = "running"
    /\ stack # <<>>
    /\ call = <<>>
    /\ Top.pc = "scan"

At(k) == Scanning /\ AtNode(Top) /\ Cur(Top).kind = k

SetTop(fr) == stack' = [stack EXCEPT ![Len(stack)] = fr]
Step(fr) == SetTop([fr EXCEPT !.path = Advance(@)])

Others == <<prev, doc, files, cache, searched, call, phase, root, result, reqs>>

ScanLabel ==
    /\ At("Label")
    /\ Step(Insert(Top, "Label", Cur(Top)).fr)
    /\ UNCHANGED <<Others, ret>>

ScanLabelRef ==
    /\ At("LabelRef")
    /\ Step(InsertRef(Top, "Label", Cur(Top)))
    /\ UNCHANGED <<Others, ret>>

ScanVar ==
    /\ At("Function") \/ At("Variable")
    /\ Step(Insert(Top, "Value", Cur(Top)).fr)
    /\ UNCHANGED <<Others, ret>>

ScanModuleBinding ==
    /\ At("PathVar") \/ At("ModuleAlias")
    /\ Step(InsertModule(Top, "Value", Cur(Top)))
    /\ UNCHANGED <<Others, ret>>

ScanValRef ==
    /\ At("ValRef")
    /\ Step(InsertRef(Top, "Value", Cur(Top)))
    /\ UNCHANGED <<Others, ret>>

\* import_name / the Star arm calling get_def_use_inner for the active source
ImportCall ==
    /\ At("Ident") \/ At("Alias") \/ At("Star")
    /\ Top.ext_src.some
    /\ ret = <<>>
    /\ call' = <<Top.ext_src.val>>
    /\ UNCHANGED <<prev, doc, files, cache, searched, stack, ret, phase, root, result, reqs>>

\* import_name(name) = Some(()): the source is active, its table was returned
\* and exports the name.
ImportResolved(fr, name) ==
    /\ fr.ext_src.some
    /\ ret # <<>>
    /\ ret[1].some
    /\ name \in DOMAIN ret[1].val.exports_defs

\* import_name(name) = None
ImportFailed(fr, name) ==
    IF ~fr.ext_src.some THEN TRUE
    ELSE IF ret = <<>> THEN FALSE
    ELSE IF ~ret[1].some THEN TRUE
    ELSE name \notin DOMAIN ret[1].val.exports_defs

\* import_name(name), the effect of its call of import_from
ImportName(fr, name) ==
    ImportFrom(fr, ret[1].val, ret[1].val.exports_defs[name])

ScanIdentOk ==
    /\ At("Ident")
    /\ ImportResolved(Top, Cur(Top).name)
    /\ Step(InsertRedef(InsertRef(ImportName(Top, Cur(Top).name), "Value", Cur(Top)),
                        Cur(Top)))
    /\ ret' = <<>>
    /\ UNCHANGED Others

ScanIdentFail ==
    /\ At("Ident")
    /\ ImportFailed(Top, Cur(Top).name)
    /\ LET r == Insert(Top, "Value", Cur(Top)) IN
       Step(InsertExtern(r.fr, Cur(Top).name, Cur(Top).range, Some(r.id)))
    /\ ret' = <<>>
    /\ UNCHANGED Others

ScanAliasOk ==
    /\ At("Alias")
    /\ ImportResolved(Top, Cur(Top).target.name)
    /\ Step(Insert(InsertIdentRef(ImportName(Top, Cur(Top).target.name), "Value",
                                  Cur(Top).target),
                   "Value", Cur(Top)).fr)
    /\ ret' = <<>>
    /\ UNCHANGED Others

ScanAliasFail ==
    /\ At("Alias")
    /\ ImportFailed(Top, Cur(Top).target.name)
    /\ LET r == Insert(Top, "Value", Cur(Top)) IN
       Step(InsertExtern(r.fr, Cur(Top).target.name, Cur(Top).target.range, Some(r.id)))
    /\ ret' = <<>>
    /\ UNCHANGED Others

EnterBlock ==
    /\ At("Block")
    /\ SetTop([EnterSnapshot(Top) EXCEPT !.path = Descend(@)])
    /\ UNCHANGED <<Others, ret>>

LeaveBlock ==
    /\ Scanning
    /\ ~AtNode(Top)
    /\ Len(Top.path) > 1
    /\ Parent(Top).kind = "Block"
    /\ SetTop([EnterRollback(Top) EXCEPT !.path = Ascend(@)])
    /\ UNCHANGED <<Others, ret>>

\* The source a Module node makes active.
ModuleSource(fr, e) ==
    IF e.src.type = "Path"
    THEN FindSourceByImportPath(fr.current_id, e.src.path)
    ELSE fr.ext_src

EnterModule ==
    /\ At("Module")
    /\ SetTop([Top EXCEPT !.ext_src = ModuleSource(Top, Cur(Top)),
                          !.path = Descend(@)])
    /\ UNCHANGED <<Others, ret>>

\* The source stays active after the node.
LeaveModuleKeepSource ==
    /\ Scanning
    /\ ~AtNode(Top)
    /\ Len(Top.path) > 1
    /\ Parent(Top).kind = "Module"
    /\ SetTop([Top EXCEPT !.path = Ascend(@)])
    /\ UNCHANGED <<Others, ret>>

LeaveModule ==
    /\ Scanning
    /\ ~AtNode(Top)
    /\ Len(Top.path) > 1
    /\ Parent(Top).kind = "Module"
    /\ SetTop([Top EXCEPT !.ext_src = NoneV, !.path = Ascend(@)])
    /\ UNCHANGED <<Others, ret>>

ScanStar ==
    /\ At("Star")
    /\ Top.ext_src.some
    /\ ret # <<>>
    /\ ret[1].some
    /\ Step(ImportAll(Top, ret[1].val, ret[1].val.exports_refs))
    /\ ret' = <<>>
    /\ UNCHANGED Others

\* `Some(source.id()).zip(get_def_use_inner(..))?' with no table: scan and
\* all its callers return None.
StarAbort ==
    /\ At("Star")
    /\ Top.ext_src.some
    /\ ret # <<>>
    /\ ~ret[1].some
    /\ SetTop([Unwind(Top) EXCEPT !.pc = "scanned", !.scan_res = FALSE])
    /\ ret' = <<>>
    /\ UNCHANGED Others

StarNoSource ==
    /\ At("Star")
    /\ ~Top.ext_src.some
    /\ Step(Top)
    /\ UNCHANGED <<Others, ret>>

\* scan reaches the end of the top-level list and returns Some(())
ScanEnd ==
    /\ Scanning
    /\ ~AtNode(Top)
    /\ Len(Top.path) = 1
    /\ SetTop([Top EXCEPT !.pc = "scanned"])
    /\ UNCHANGED <<Others, ret>>

\* collector.calc_exports(); the scope yields its values in any order
DoCalcExports ==
    /\ phase = "running"
    /\ stack # <<>>
    /\ call = <<>>
    /\ Top.pc = "scanned"
    /\ \E order \in Perms(SmValues(Top.id_scope)) :
          SetTop([CalcExports(Top, order) EXCEPT !.pc = "exported"])
    /\ UNCHANGED <<Others, ret>>

\* The table is installed in the cache and returned.
Return ==
    /\ phase = "running"
    /\ stack # <<>>
    /\ call = <<>>
    /\ Top.pc = "exported"
    /\ cache' = ComputeDefUse(cache, Top.current_id, ScanReturn(Top))
    /\ ret' = <<ScanReturn(Top)>>
    /\ stack' = SubSeq(stack, 1, Len(stack) - 1)
    /\ UNCHANGED <<prev, doc, files, searched, call, phase, root, result, reqs>>

\* get_def_use hands the result of get_def_use_inner to its caller.
Respond ==
    /\ phase = "running"
    /\ stack = <<>>
    /\ call = <<>>
    /\ ret # <<>>
    /\ result' = ret[1]
    /\ ret' = <<>>
    /\ phase' = "idle"
    /\ UNCHANGED <<prev, doc, files, cache, searched, stack, call, root, reqs>>

\* A consumer serializes the installed table of a file.
Serialize(f) ==
    /\ phase = "idle"
    /\ cache[f].some
    /\ \E references \in ReferenceVecs(cache[f].val, Len(cache[f].val.ident_defs)) :
          doc' = Some([file |-> f, out |-> SerializeSnapshot(cache[f].val, references)])
    /\ UNCHANGED <<prev, files, cache, searched, stack, call, ret, phase, root, result,
                   reqs>>

Next ==
    \/ \E f \in Files : GetDefUse(f)
    \/ \E f \in Files : Serialize(f)
    \/ CacheHit
    \/ CycleHit
    \/ NoHierarchy
    \/ Begin
    \/ ScanLabel
    \/ ScanLabelRef
    \/ ScanVar
    \/ ScanModuleBinding
    \/ ScanValRef
    \/ ImportCall
    \/ ScanIdentOk
    \/ ScanIdentFail
    \/ ScanAliasOk
    \/ ScanAliasFail
    \/ EnterBlock
    \/ LeaveBlock
    \/ EnterModule
    \/ LeaveModule
    \/ ScanStar
    \/ StarAbort
    \/ StarNoSource
    \/ ScanEnd
    \/ DoCalcExports
    \/ Return
    \/ Respond

Spec == Init /\ [][Next]_vars

(***************************************************************************)
(* Passes: the host of the per-file cache drops the installed tables      *)
(* between two requests; the files are unchanged.  The tables of the pass  *)
(* that ends and the root of its last request are kept in `prev' for       *)
(* comparison.                                                             *)
(***************************************************************************)
NewPass ==
    /\ phase = "idle"
    /\ reqs < MaxRequests
    /\ \E f \in Files : cache[f].some
    /\ prev' = [root |-> root, tables |-> cache]
    /\ cache' = [f \in Files |-> NoneV]
    /\ doc' = NoneV
    /\ UNCHANGED <<files, searched, stack, call, ret, phase, root, result, reqs>>

PassNext == Next \/ NewPass

PassSpec == Init /\ [][PassNext]_vars

(***************************************************************************)
(* Import graph of the files                                               *)
(***************************************************************************)
RECURSIVE AllNodes(_)
AllNodes(list) ==
    UNION {{list[i]} \cup AllNodes(list[i].children) : i \in 1..Len(list)}

NodesOf(f) == IF files[f].some THEN AllNodes(files[f].val) ELSE {}

IsImportNode(n) == n.kind \in {"Ident", "Alias", "Star"}

\* Files f imports from: the resolvable path of a Module node with an
\* identifier, aliased or star import below it.
ImportsOf(f) ==
    {FindSourceByImportPath(f, m.src.path).val :
        m \in {n \in NodesOf(f) :
                 /\ n.kind = "Module"
                 /\ n.src.type = "Path"
                 /\ FindSourceByImportPath(f, n.src.path).some
                 /\ \E i \in 1..Len(n.children) : IsImportNode(n.children[i])}}

RECURSIVE ReachIn(_, _)
ReachIn(S, n) ==
    IF n = 0 THEN S ELSE ReachIn(S \cup UNION {ImportsOf(g) : g \in S}, n - 1)

ImportsTransitively(f) == ReachIn(ImportsOf(f), Cardinality(Files))

OnCycle(f) == f \in ImportsTransitively(f)

StackFiles == {stack[i].current_id : i \in 1..Len(stack)}

\* Every DefUseInfo in the state: the tables under construction, the cached
\* ones and the last result.
Finished == {cache[f].val : f \in {g \in Files : cache[g].some}}
Building == {stack[i].info : i \in 1..Len(stack)}
AllInfos == Finished \cup Building

(***************************************************************************)
(* C1  Cycle safety: a top-level request for a file on an import cycle     *)
(* terminates and returns a table.  No file is on the call stack twice,    *)
(* the stack is never deeper than the number of files, a scan is only      *)
(* started for a file that was not yet in the visited set, and every step  *)
(* of a running request decreases a natural number (Rank), so the request  *)
(* ends after finitely many steps.                                         *)
(***************************************************************************)
NoReentry ==
    /\ \A i, j \in 1..Len(stack) : stack[i].current_id = stack[j].current_id => i = j
    /\ StackFiles \subseteq searched
    /\ Len(stack) <= Cardinality(Files)

EntersUnvisited ==
    Len(stack') > Len(stack) => stack'[Len(stack')].current_id \notin searched

\* Number of scan steps a node takes: one for a leaf, one to enter and one to
\* leave a Block or Module besides its children.
RECURSIVE Weight(_)
RECURSIVE ListWeight(_, _)
Weight(n) ==
    IF n.kind \in {"Block", "Module"} THEN 2 + ListWeight(n.children, 1) ELSE 1
ListWeight(list, from) ==
    IF from > Len(list) THEN 0 ELSE Weight(list[from]) + ListWeight(list, from + 1)

\* Scan steps left from a position.
RECURSIVE Remaining(_, _)
Remaining(list, path) ==
    IF Len(path) = 1 THEN ListWeight(list, path[1])
    ELSE Remaining(list[Head(path)].children, Tail(path)) + 1
         + ListWeight(list, Head(path) + 1)

FrameRank(fr) ==
    CASE fr.pc = "scan" -> 3 * (Remaining(Tree(fr), fr.path) + 1)
      [] fr.pc = "scanned" -> 2
      [] OTHER -> 1

RECURSIVE StackRank(_)
StackRank(st) == IF st = <<>> THEN 0 ELSE FrameRank(Head(st)) + StackRank(Tail(st))

MaxFrameRank ==
    LET w == {ListWeight(t, 1) : t \in Hierarchies}
    IN 3 * ((CHOOSE m \in w : \A k \in w : k <= m) + 1)

Rank ==
    (MaxFrameRank + 3) * Cardinality(Files \ searched)
    + StackRank(stack)
    + (IF call # <<>> THEN 1 ELSE IF ret # <<>> THEN 0 ELSE 2)

RankDecreases ==
    (phase = "running" /\ phase' = "running") => (Rank' < Rank /\ Rank' >= 0)

\* A running request has an invocation to enter, a frame to run or a result
\* to hand back.
HasWork ==
    phase = "running" =>
        /\ call # <<>> \/ stack # <<>> \/ ret # <<>>
        /\ call # <<>> => ret = <<>>

ReturnsTableOnCycle ==
    (phase = "idle" /\ reqs > 0 /\ OnCycle(root)) => result.some

C1_CycleSafety ==
    /\ [](NoReentry /\ ReturnsTableOnCycle /\ HasWork)
    /\ [][EntersUnvisited /\ RankDecreases]_vars

\* A first request for a file on a cycle has returned the table it installed.
C1_Witness ==
    /\ phase = "idle"
    /\ reqs = 1
    /\ OnCycle(root)
    /\ result.some
    /\ cache[root] = result
    /\ \E f \in searched \ {root} : root \in ImportsOf(f)

(***************************************************************************)
(* C2  A finished top-level request has no result exactly when the         *)
(* hierarchy of its root file cannot be produced, whatever happened to the *)
(* files it imports.                                                       *)
(***************************************************************************)
C2_NoResultIffNoRootHierarchy ==
    (phase = "idle" /\ reqs > 0) => (result.some <=> GetLexicalHierarchy(root).some)

\* A request returned a table although an imported file has no hierarchy and
\* although an import ran into a cycle.
C2_Witness ==
    /\ phase = "idle"
    /\ reqs > 0
    /\ result.some
    /\ \E f \in searched \ {root} : ~GetLexicalHierarchy(f).some
    /\ OnCycle(root)

C2_WitnessNone ==
    /\ phase = "idle"
    /\ reqs > 0
    /\ ~result.some

(***************************************************************************)
(* C3  Key uniqueness and density: no definition table has two slots with  *)
(* the same (owning file, IdentRef) key, the ids bound in the scopes are   *)
(* positions 0..size-1 of the table, a scan step never moves or removes a  *)
(* slot, and importing an export whose key is already in the table binds   *)
(* the name to the existing DefId without growing the table.               *)
(***************************************************************************)
KeysUnique(info) ==
    \A i, j \in 1..Len(info.ident_defs) :
        (/\ info.ident_defs[i].fid = info.ident_defs[j].fid
         /\ info.ident_defs[i].ref = info.ident_defs[j].ref) => i = j

ScopeIdsDense(fr) ==
    SmValues(fr.id_scope) \cup SmValues(fr.label_scope)
        \subseteq 0..(Len(fr.info.ident_defs) - 1)

\* The slot of the exporter's table an import of `name' copies.
ExportedSlot(info, name) == info.ident_defs[info.exports_defs[name] + 1]

C3Step ==
    (stack # <<>> /\ Len(stack') = Len(stack)) =>
        LET o == Top.info.ident_defs
            n == stack'[Len(stack')].info.ident_defs
        IN /\ Len(n) >= Len(o)
           /\ \A i \in 1..Len(o) : n[i].fid = o[i].fid /\ n[i].ref = o[i].ref
           /\ (At("Ident") /\ ImportResolved(Top, Cur(Top).name)) =>
                 LET e == ExportedSlot(ret[1].val, Cur(Top).name)
                     k == IndexOfKey(o, e.fid, IdentRef(e.def.name, e.def.range))
                 IN k > 0 =>
                      /\ Len(n) = Len(o)
                      /\ stack'[Len(stack')].id_scope[Cur(Top).name] = k - 1

C3_KeyUniqueDense ==
    /\ [](\A info \in AllInfos : KeysUnique(info))
    /\ [](\A i \in 1..Len(stack) : ScopeIdsDense(stack[i]))
    /\ [][C3Step]_vars

\* A finished table of the named-import hierarchy: x was imported twice from
\* the same file and then star-imported, and has one slot.
C3_Witness ==
    \E f \in Files :
        /\ cache[f].some
        /\ files[f] = Some(NamedImportTree)
        /\ LET info == cache[f].val
               r1 == IdentRef("x", Rng(10, 11))
               r2 == IdentRef("x", Rng(60, 61))
           IN /\ r1 \in DOMAIN info.ident_refs
              /\ r2 \in DOMAIN info.ident_refs
              /\ info.ident_refs[r1] = info.ident_refs[r2]
              /\ Cardinality({i \in 1..Len(info.ident_defs) :
                                 info.ident_defs[i].def.name = "x"}) = 1
              /\ cache[NextFile(f)].some
              /\ "x" \in DOMAIN cache[NextFile(f)].val.exports_defs
              /\ info.exports_refs # <<>>

(***************************************************************************)
(* C4  Reference soundness: in every table, under construction or          *)
(* finished, every DefId held by the reference table, the redefinition     *)
(* table, the export list, the export map and the external-reference       *)
(* table is one get_def_by_id of that table answers.                       *)
(***************************************************************************)
StoredIds(info) ==
    MapValues(info.ident_refs)
    \cup MapValues(info.ident_redefines)
    \cup {info.exports_refs[i] : i \in 1..Len(info.exports_refs)}
    \cup MapValues(info.exports_defs)
    \cup UNION {{info.external_refs[k][i].id.val :
                    i \in {j \in 1..Len(info.external_refs[k]) :
                             info.external_refs[k][j].id.some}} :
                k \in DOMAIN info.external_refs}

C4_ReferenceSoundness ==
    \A info \in AllInfos : \A d \in StoredIds(info) : GetDefById(info, d).some

\* A finished table with a reference to a copied-in definition, a
\* redefinition entry, an external reference carrying a DefId and exports.
C4_Witness ==
    \E info \in Finished :
        /\ \E r \in DOMAIN info.ident_refs :
              GetDefById(info, info.ident_refs[r]).val.fid # info.redefine_current.val
        /\ info.ident_redefines # EmptyMap
        /\ \E k \in DOMAIN info.external_refs : info.external_refs[k][1].id.some
        /\ Len(info.exports_refs) >= 2
        /\ Len(info.ident_defs) >= 3

(***************************************************************************)
(* C5  Round-trip.  As claimed: whenever get_def(f, r) returns (d, def),   *)
(* get_def_by_id(d) returns the file f and the definition inserted at r,   *)
(* also when the redefinition table answered.                              *)
(***************************************************************************)
LookupRefs(info) ==
    {info.ident_defs[i].ref : i \in 1..Len(info.ident_defs)}
    \cup DOMAIN info.ident_redefines
    \cup DOMAIN info.ident_refs

RoundTripAt(info, f, r) ==
    LET g == GetDef(info, f, r) IN
    g.some =>
        /\ GetDefById(info, g.val.id) = Some([fid |-> f, def |-> g.val.def])
        /\ g.val.def.name = r.name
        /\ g.val.def.range = r.range

C5_RoundTripAll ==
    \A info \in AllInfos : \A f \in Files : \A r \in LookupRefs(info) :
        RoundTripAt(info, f, r)

\* C5 as amended: the round trip holds for a lookup answered by the key
\* (f, r).  For a lookup answered by the redefinition table, get_def_by_id(d)
\* returns the definition get_def returned under the key it was copied in
\* with: a file other than f and the range of the exporter's definition.
AnsweredByKey(info, f, r) == IndexOfKey(info.ident_defs, f, r) > 0

FallbackAt(info, f, r) ==
    LET g == GetDef(info, f, r)
        b == GetDefById(info, g.val.id)
    IN g.some =>
        /\ b.some
        /\ b.val.def = g.val.def
        /\ b.val.fid # f
        /\ g.val.def.name = r.name
        /\ info.ident_defs[g.val.id + 1].ref = IdentRef(b.val.def.name, b.val.def.range)

RoundTripOrFallback(info) ==
    LET refs == LookupRefs(info) IN
    \A f \in Files : \A r \in refs :
        GetDef(info, f, r).some =>
            IF AnsweredByKey(info, f, r)
            THEN RoundTripAt(info, f, r)
            ELSE FallbackAt(info, f, r)

C5_RoundTrip ==
    /\ \A f \in Files : cache[f].some => RoundTripOrFallback(cache[f].val)
    /\ \A i \in 1..Len(stack) : RoundTripOrFallback(stack[i].info)

\* A finished table in which a lookup is answered by the key and another by
\* the redefinition table.
C5_Witness ==
    \E info \in Finished : \E f \in Files :
        /\ \E r \in LookupRefs(info) :
              AnsweredByKey(info, f, r) /\ GetDef(info, f, r).some
        /\ \E r \in LookupRefs(info) :
              ~AnsweredByKey(info, f, r) /\ GetDef(info, f, r).some

(***************************************************************************)
(* C6  Export correctness: when calc_exports has run, the export list      *)
(* holds exactly the DefIds bound in the Value scope, which is then the    *)
(* top-level scope, and exports_defs is that scope.  In every finished     *)
(* table an exported slot carries the name it is exported under, is no     *)
(* Label, is not a definition made only inside a block and is not a        *)
(* top-level definition followed by a later top-level definition of the    *)
(* same name.                                                              *)
(***************************************************************************)
RECURSIVE NodesOutsideBlocks(_)
NodesOutsideBlocks(list) ==
    UNION {{list[i]} \cup (IF list[i].kind = "Block" THEN {}
                           ELSE NodesOutsideBlocks(list[i].children)) :
           i \in 1..Len(list)}

TopLevelRefs(f) ==
    IF files[f].some
    THEN {NodeRef(n) : n \in NodesOutsideBlocks(files[f].val)}
    ELSE {}

ExportIds(info) == {info.exports_refs[i] : i \in 1..Len(info.exports_refs)}

ExportsWellFormed(info) ==
    LET f == info.redefine_current.val
        defs == info.ident_defs
        top == TopLevelRefs(f)
    IN /\ \A d \in 0..(Len(defs) - 1) :
             IsExported(info, d) <=>
                \E n \in DOMAIN info.exports_defs : info.exports_defs[n] = d
       /\ Cardinality(ExportIds(info)) = Len(info.exports_refs)
       /\ \A n \in DOMAIN info.exports_defs :
             /\ GetDefById(info, info.exports_defs[n]).some
             /\ GetDefById(info, info.exports_defs[n]).val.def.name = n
             /\ GetDefById(info, info.exports_defs[n]).val.def.kind # "Label"
       /\ \A i \in 1..Len(defs) :
             (IsExported(info, i - 1) /\ defs[i].fid = f) =>
                 /\ defs[i].ref \in top
                 /\ \A j \in 1..Len(defs) :
                       ~(/\ defs[j].fid = f
                         /\ defs[j].def.kind # "Label"
                         /\ defs[j].def.name = defs[i].def.name
                         /\ defs[j].ref \in top
                         /\ defs[j].ref.range.start > defs[i].ref.range.start)

ExportsAreFinalScope(fr) ==
    fr.pc = "exported" =>
        /\ fr.snaps = <<>>
        /\ ExportIds(fr.info) = SmValues(fr.id_scope)
        /\ fr.info.exports_defs = fr.id_scope
        /\ ExportsWellFormed(fr.info)

C6_ExportCorrectness ==
    /\ \A i \in 1..Len(stack) : ExportsAreFinalScope(stack[i])
    /\ \A info \in Finished : ExportsWellFormed(info)

\* A finished table of the local hierarchy: the last top-level x and y are
\* exported, the x and z of the block, the first x and the labels are not.
C6_Witness ==
    \E f \in Files :
        /\ cache[f].some
        /\ files[f] = Some(LocalTree)
        /\ LET info == cache[f].val IN
           /\ DOMAIN info.exports_defs = {"x", "y"}
           /\ GetDefById(info, info.exports_defs["x"]).val.def.range = Rng(60, 61)
           /\ Len(info.ident_defs) = 7
           /\ Len(info.exports_refs) = 2

(***************************************************************************)
(* C7  Shadowing and block scoping: entering a Block saves the Value       *)
(* scope, no step changes a saved scope, and leaving the Block makes the   *)
(* Value scope the saved one while the table and the Label scope are left  *)
(* as they are.  In `let x = 1; { let x = 2; use(x) }; use(x)' the inner   *)
(* reference resolves to the inner definition and the outer one to the     *)
(* outer; a name bound only inside a block, by a definition or an import,  *)
(* does not resolve after the block, and its slot stays in the table.      *)
(***************************************************************************)
AtBlockEnd ==
    /\ Scanning
    /\ ~AtNode(Top)
    /\ Len(Top.path) > 1
    /\ Parent(Top).kind = "Block"

C7Step ==
    (stack # <<>> /\ Len(stack') = Len(stack) /\ Top.pc = "scan") =>
        LET new == stack'[Len(stack')] IN
        /\ At("Block") =>
              /\ new.snaps = Append(Top.snaps, Top.id_scope)
              /\ new.id_scope = Top.id_scope
        /\ AtBlockEnd =>
              /\ new.id_scope = Top.snaps[Len(Top.snaps)]
              /\ new.snaps = SubSeq(Top.snaps, 1, Len(Top.snaps) - 1)
              /\ new.info = Top.info
              /\ new.label_scope = Top.label_scope
        /\ (new.pc = "scan" /\ ~AtBlockEnd) =>
              \A i \in 1..Len(Top.snaps) : new.snaps[i] = Top.snaps[i]

SlotId(info, f, n, s) == IndexOfKey(info.ident_defs, f, IdentRef(n, Rng(s, s + 1))) - 1

InUndefined(info, r) ==
    \E i \in 1..Len(info.undefined_refs) : info.undefined_refs[i] = r

ShadowExample(f, info) ==
    files[f] = Some(LocalTree) =>
        /\ GetRef(info, IdentRef("x", Rng(20, 21))) = Some(SlotId(info, f, "x", 10))
        /\ GetRef(info, IdentRef("x", Rng(30, 31))) = Some(SlotId(info, f, "x", 0))
        /\ SlotId(info, f, "x", 10) # SlotId(info, f, "x", 0)
        /\ SlotId(info, f, "z", 24) >= 0
        /\ InUndefined(info, IdentRef("z", Rng(50, 51)))

BlockImportExample(f, info) ==
    files[f] = Some(BackEdgeTree) => ~GetRef(info, IdentRef("y", Rng(17, 18))).some

C7_BlockScoping ==
    /\ [][C7Step]_vars
    /\ [](\A f \in Files : cache[f].some =>
             /\ ShadowExample(f, cache[f].val)
             /\ BlockImportExample(f, cache[f].val))

\* Finished tables of the shadowing example and of a hierarchy that imported
\* y inside a block from a file that exports it: the reference to y after
\* the block is undefined, the copied-in slot of y is in the table.
C7_Witness ==
    \E f, g \in Files :
        /\ cache[f].some /\ files[f] = Some(LocalTree)
        /\ cache[g].some /\ files[g] = Some(BackEdgeTree)
        /\ InUndefined(cache[g].val, IdentRef("y", Rng(17, 18)))
        /\ \E i \in 1..Len(cache[g].val.ident_defs) :
              /\ cache[g].val.ident_defs[i].fid # g
              /\ cache[g].val.ident_defs[i].def.name = "y"

(***************************************************************************)
(* C8  Star-import completeness: the step that scans a Star node with an   *)
(* active external source whose table was returned leaves, for every       *)
(* DefId of that table's export list, a slot with the same key in the      *)
(* importer's table, and binds every exported name in the importer's       *)
(* Value scope to a slot with the owning file, range and key of the        *)
(* exporter's slot for it.                                                 *)
(***************************************************************************)
StarWithTable ==
    /\ At("Star")
    /\ Top.ext_src.some
    /\ ret # <<>>
    /\ ret[1].some

C8Step ==
    StarWithTable =>
        LET ext == ret[1].val
            new == stack'[Len(stack')]
        IN /\ Len(stack') = Len(stack)
           /\ \A i \in 1..Len(ext.exports_refs) :
                 LET e == ext.ident_defs[ext.exports_refs[i] + 1]
                 IN IndexOfKey(new.info.ident_defs, e.fid, e.ref) > 0
           /\ \A n \in DOMAIN ext.exports_defs :
                 LET e == ExportedSlot(ext, n) IN
                 /\ n \in DOMAIN new.id_scope
                 /\ GetDefById(new.info, new.id_scope[n]).some
                 /\ LET mine == new.info.ident_defs[new.id_scope[n] + 1] IN
                    /\ mine.fid = e.fid
                    /\ mine.ref = e.ref
                    /\ mine.def.name = n
                    /\ mine.def.range = e.def.range

C8_StarImportComplete == [][C8Step]_vars

\* A star import has just copied the exports x and y of the local
\* hierarchy, none of which was in the importer's table before.
C8_Witness ==
    /\ stack # <<>>
    /\ files[Top.current_id] = Some(StarImportTree)
    /\ Top.pc = "scan"
    /\ Top.path = <<1, 2>>
    /\ cache[NextFile(Top.current_id)].some
    /\ DOMAIN cache[NextFile(Top.current_id)].val.exports_defs = {"x", "y"}
    /\ DOMAIN Top.id_scope = {"x", "y"}
    /\ Len(Top.info.ident_defs) = 2

(***************************************************************************)
(* C9  Unresolved-import bookkeeping: the step that scans `import z' with  *)
(* an active external source B whose table is missing or does not export   *)
(* z defines z as a slot owned by the importing file, binds z to it in     *)
(* the Value scope, makes get_external_refs(B, z) yield that DefId with    *)
(* the name and range of the occurrence, and leaves the cache unchanged.   *)
(***************************************************************************)
UnresolvedIdent ==
    /\ At("Ident")
    /\ Top.ext_src.some
    /\ ret # <<>>
    /\ ImportFailed(Top, Cur(Top).name)

C9Step ==
    UnresolvedIdent =>
        LET e == Cur(Top)
            new == stack'[Len(stack')]
            d == IndexOfKey(new.info.ident_defs, Top.current_id, NodeRef(e)) - 1
            ext == GetExternalRefs(new.info, Top.ext_src.val, Some(e.name))
        IN /\ Len(stack') = Len(stack)
           /\ d >= 0
           /\ GetDefById(new.info, d) =
                 Some([fid |-> Top.current_id, def |-> IdentDef(e.name, e.kind, e.range)])
           /\ SmGet(new.id_scope, e.name) = Some(d)
           /\ \E i \in 1..Len(ext) : ext[i] = [id |-> Some(d), ref |-> NodeRef(e)]
           /\ cache' = cache

C9_UnresolvedImport == [][C9Step]_vars

\* Both cases have happened in one table: an import of a name the cached
\* table of the source does not export, and an import from a source that
\* yielded no table.
C9_Witness ==
    \E f, g \in Files :
        /\ cache[f].some
        /\ files[f] = Some(NamedImportTree)
        /\ cache[NextFile(f)].some
        /\ "z" \notin DOMAIN cache[NextFile(f)].val.exports_defs
        /\ Len(GetExternalRefs(cache[f].val, NextFile(f), Some("z"))) = 1
        /\ GetExternalRefs(cache[f].val, NextFile(f), Some("z"))[1].id.some
        /\ cache[g].some
        /\ files[g] = Some(MiscTree)
        /\ ~cache[NextFile(g)].some
        /\ GetExternalRefs(cache[g].val, NextFile(g), Some("y")) # <<>>

(***************************************************************************)
(* C10  Build-once per pass: an invocation for a file with an installed    *)
(* table returns that table and starts no scan; an invocation for a file   *)
(* of the visited set without an installed table returns no table; a scan  *)
(* starts only for a file that is neither installed nor visited and puts   *)
(* it in the visited set, which only grows during a request; an installed  *)
(* table never changes, and only a table whose exports are computed is     *)
(* installed.                                                              *)
(***************************************************************************)
C10Step ==
    /\ (call # <<>> /\ cache[call[1]].some) =>
           /\ ret' = <<cache[call[1]]>>
           /\ stack' = stack
           /\ searched' = searched
    /\ (call # <<>> /\ ~cache[call[1]].some /\ call[1] \in searched) =>
           /\ ret' = <<NoneV>>
           /\ stack' = stack
    /\ Len(stack') > Len(stack) =>
           LET f == stack'[Len(stack')].current_id IN
           /\ f \notin searched
           /\ ~cache[f].some
           /\ f \in searched'
    /\ (phase = "running" /\ phase' = "running") => searched \subseteq searched'
    /\ \A f \in Files : cache[f].some => cache'[f] = cache[f]
    /\ \A f \in Files : (~cache[f].some /\ cache'[f].some) =>
           /\ stack # <<>>
           /\ Top.current_id = f
           /\ Top.pc = "exported"
           /\ cache'[f] = Some(Top.info)

C10_BuildOnce == [][C10Step]_vars

\* A file that is being scanned and has definitions already was asked for
\* again, and no table was returned.
C10_Witness ==
    /\ stack # <<>>
    /\ ret = <<NoneV>>
    /\ Top.ext_src.some
    /\ \E i \in 1..Len(stack) :
          /\ stack[i].current_id = Top.ext_src.val
          /\ stack[i].info.ident_defs # <<>>
    /\ \E f \in Files : cache[f].some


(***************************************************************************)
(* C11  An unavailable import edge is skipped silently: the step that      *)
(* scans an identifier, aliased or star import whose recursive call        *)
(* returned no table copies no foreign slot and goes on with the next      *)
(* node, and every finished table has a slot for every definition node of  *)
(* its file and an entry, in the reference table or the undefined list,    *)
(* for every reference node of its file.                                   *)
(***************************************************************************)
NoTableReturned ==
    /\ At("Ident") \/ At("Alias") \/ At("Star")
    /\ Top.ext_src.some
    /\ ret = <<NoneV>>

IsDefNode(n) == n.kind \in {"Variable", "Function", "Label", "PathVar", "ModuleAlias"}
IsRefNode(n) == n.kind \in {"ValRef", "LabelRef"}

RecordsNode(info, f, n) ==
    /\ IsDefNode(n) => IndexOfKey(info.ident_defs, f, NodeRef(n)) > 0
    /\ IsRefNode(n) =>
          NodeRef(n) \in DOMAIN info.ident_refs \/ InUndefined(info, NodeRef(n))

RecordsAllNodes(f) ==
    cache[f].some => \A n \in NodesOf(f) : RecordsNode(cache[f].val, f, n)

C11Step ==
    NoTableReturned =>
        LET new == stack'[Len(stack')]
            o == Top.info.ident_defs
            n == new.info.ident_defs
        IN /\ Len(stack') = Len(stack)
           /\ \A i \in 1..Len(n) : n[i].fid # Top.current_id => i <= Len(o)
           /\ new.pc = "scan"
           /\ new.path = Advance(Top.path)

C11_SkipSilently ==
    /\ [][C11Step]_vars
    /\ [](\A f \in Files : RecordsAllNodes(f))

\* The same for identifier and aliased imports only: the local name is
\* defined and the scan goes on.
C11IdentStep ==
    (NoTableReturned /\ ~At("Star")) =>
        LET new == stack'[Len(stack')]
            o == Top.info.ident_defs
            n == new.info.ident_defs
        IN /\ Len(stack') = Len(stack)
           /\ \A i \in 1..Len(n) : n[i].fid # Top.current_id => i <= Len(o)
           /\ IndexOfKey(n, Top.current_id, NodeRef(Cur(Top))) > 0
           /\ new.pc = "scan"
           /\ new.path = Advance(Top.path)

\* A star import whose source yielded no table ends the scan of the file:
\* scan returns None through every enclosing Block and Module, the saved
\* scopes are restored, the active source stays set, and the table built so
\* far is the one whose exports are computed and that is installed.
C11StarStep ==
    (NoTableReturned /\ At("Star")) =>
        LET new == stack'[Len(stack')] IN
        /\ Len(stack') = Len(stack)
        /\ new.info = Top.info
        /\ new.pc = "scanned"
        /\ new.path = Top.path
        /\ new.snaps = <<>>
        /\ new.id_scope = (IF Top.snaps = <<>> THEN Top.id_scope ELSE Top.snaps[1])
        /\ new.ext_src = Top.ext_src

C11_StarAbortsScan == [][C11IdentStep /\ C11StarStep]_vars

\* A finished table of the star-import hierarchy whose source has no
\* hierarchy: the nodes after the star import left no trace.
C11_Witness ==
    \E f \in Files :
        /\ files[f] = Some(StarImportTree)
        /\ ~files[NextFile(f)].some
        /\ cache[f].some
        /\ cache[f].val.ident_defs = <<>>
        /\ cache[f].val.undefined_refs = <<>>
        /\ cache[f].val.exports_refs = <<>>


(***************************************************************************)
(* C12  Serialization is deterministic and idempotent: a serialization of  *)
(* a table that was serialized before yields the same document, whatever   *)
(* order the reference table is iterated in.  The document has one entry   *)
(* per slot of the definition table, in table order, with the slot's key   *)
(* and definition and exactly the references mapping to the slot, sorted   *)
(* by name then range start; a last entry "<nil>" holds all undefined      *)
(* references sorted the same way and is there exactly when the undefined  *)
(* list is not empty.                                                      *)
(***************************************************************************)
SortedByNameThenStart(v) ==
    \A i \in 1..(Len(v) - 1) :
        \/ NameRank(v[i].name) < NameRank(v[i + 1].name)
        \/ v[i].name = v[i + 1].name /\ v[i].range.start <= v[i + 1].range.start

SameElements(v, w) ==
    /\ Len(v) = Len(w)
    /\ \A i \in 1..Len(v) :
          Cardinality({j \in 1..Len(v) : v[j] = v[i]})
              = Cardinality({j \in 1..Len(w) : w[j] = v[i]})

DocWellFormed ==
    doc.some =>
        LET info == cache[doc.val.file].val
            out == doc.val.out
            n == Len(info.ident_defs)
        IN /\ Len(out) = n + (IF info.undefined_refs # <<>> THEN 1 ELSE 0)
           /\ \A k \in 1..n :
                 /\ out[k].key = EntryKey(info.ident_defs[k])
                 /\ out[k].def = info.ident_defs[k].def
                 /\ {out[k].refs[i] : i \in 1..Len(out[k].refs)} = GetRefs(info, k - 1)
                 /\ Len(out[k].refs) = Cardinality(GetRefs(info, k - 1))
                 /\ SortedByNameThenStart(out[k].refs)
           /\ \A k \in 1..Len(out) : out[k].key = NilKey <=> k > n
           /\ Len(out) > n =>
                 /\ SameElements(out[n + 1].refs, info.undefined_refs)
                 /\ SortedByNameThenStart(out[n + 1].refs)
           /\ \A references \in ReferenceVecs(info, n) :
                 SerializeSnapshot(info, references) = out

SerializeTwice ==
    (doc.some /\ doc'.some /\ doc'.val.file = doc.val.file) => doc' = doc

C12_SerializeDeterministic ==
    /\ []DocWellFormed
    /\ [][SerializeTwice]_vars

\* The document of the local hierarchy: a slot with two references, which
\* the reference table yields in either order, and the undefined references
\* z@50, x@51 listed as x@51, z@50.
C12_Witness ==
    /\ doc.some
    /\ files[doc.val.file] = Some(LocalTree)
    /\ LET info == cache[doc.val.file].val
           out == doc.val.out
       IN /\ Cardinality(ReferenceVecs(info, Len(info.ident_defs))) > 1
          /\ \E k \in 1..Len(info.ident_defs) : Len(out[k].refs) = 2
          /\ Len(out) = Len(info.ident_defs) + 1
          /\ out[Len(out)].refs # info.undefined_refs
          /\ Len(out[Len(out)].refs) = 2


(***************************************************************************)
(* C13  Successful plain import: the step that scans `import x' when the   *)
(* table of the active external source exports x leaves in the importer's  *)
(* table a slot d with the key and definition of the exporter's slot for   *)
(* x, maps the occurrence to d in the reference table and in the           *)
(* redefinition table, creates no slot keyed by the importing file and the *)
(* occurrence, and binds x to d in the Value scope; a Value reference      *)
(* scanned while its name is bound is mapped to the DefId the name is      *)
(* bound to.                                                               *)
(***************************************************************************)
ResolvedIdent == At("Ident") /\ ImportResolved(Top, Cur(Top).name)

C13Step ==
    /\ ResolvedIdent =>
          LET e == ExportedSlot(ret[1].val, Cur(Top).name)
              occ == NodeRef(Cur(Top))
              new == stack'[Len(stack')]
              d == IndexOfKey(new.info.ident_defs, e.fid, e.ref) - 1
          IN /\ Len(stack') = Len(stack)
             /\ d >= 0
             /\ new.info.ident_defs[d + 1] = e
             /\ e.ref = IdentRef(e.def.name, e.def.range)
             /\ e.fid # Top.current_id
             /\ GetRef(new.info, occ) = Some(d)
             /\ occ \in DOMAIN new.info.ident_redefines
             /\ new.info.ident_redefines[occ] = d
             /\ IndexOfKey(new.info.ident_defs, Top.current_id, occ) = 0
             /\ Len(new.info.ident_defs) <= Len(Top.info.ident_defs) + 1
             /\ SmGet(new.id_scope, Cur(Top).name) = Some(d)
             /\ new.info.undefined_refs = Top.info.undefined_refs
             /\ new.info.external_refs = Top.info.external_refs
    /\ (At("ValRef") /\ Cur(Top).name \in DOMAIN Top.id_scope) =>
          GetRef(stack'[Len(stack')].info, NodeRef(Cur(Top)))
              = Some(Top.id_scope[Cur(Top).name])

\* In `import "next": x; use(x)' the reference resolves to the slot of the
\* import whenever the import occurrence has a redefinition entry.
C13Example(f, info) ==
    LET occ == IdentRef("x", Rng(10, 11)) IN
    (files[f] = Some(NamedImportTree) /\ occ \in DOMAIN info.ident_redefines) =>
        /\ GetRef(info, IdentRef("x", Rng(15, 16))) = Some(info.ident_redefines[occ])
        /\ GetRef(info, occ) = Some(info.ident_redefines[occ])
        /\ GetDefById(info, info.ident_redefines[occ]).val.fid # f

C13_PlainImport ==
    /\ [][C13Step]_vars
    /\ [](\A f \in Files : cache[f].some => C13Example(f, cache[f].val))

\* A finished table of the named-import hierarchy whose first import of x
\* resolved.
C13_Witness ==
    \E f \in Files :
        /\ cache[f].some
        /\ files[f] = Some(NamedImportTree)
        /\ IdentRef("x", Rng(10, 11)) \in DOMAIN cache[f].val.ident_redefines
        /\ GetRef(cache[f].val, IdentRef("x", Rng(15, 16))).some
        /\ IndexOfKey(cache[f].val.ident_defs, f, IdentRef("x", Rng(10, 11))) = 0


(***************************************************************************)
(* C14  Provenance is preserved through copies: every slot of a table      *)
(* whose owning file is not the file under analysis is, with its owning    *)
(* file, key, name and range, a slot of the installed table of its owning  *)
(* file, whatever file it was imported from; a step that adds such a slot  *)
(* copies an exported slot of the table just returned, leaves every slot   *)
(* already in the table as it is and does not change the cache.            *)
(***************************************************************************)
OwnSlots(info) ==
    {info.ident_defs[i] : i \in {j \in 1..Len(info.ident_defs) :
                                    info.ident_defs[j].fid = info.redefine_current.val}}

ForeignSlots(info) ==
    {info.ident_defs[i] : i \in {j \in 1..Len(info.ident_defs) :
                                    info.ident_defs[j].fid # info.redefine_current.val}}

ProvenanceKept(info) ==
    \A s \in ForeignSlots(info) :
        /\ cache[s.fid].some
        /\ s \in OwnSlots(cache[s.fid].val)
        /\ s.ref = IdentRef(s.def.name, s.def.range)

C14Step ==
    (stack # <<>> /\ Len(stack') = Len(stack)) =>
        LET o == Top.info.ident_defs
            n == stack'[Len(stack')].info.ident_defs
        IN /\ \A i \in 1..Len(o) : n[i] = o[i]
           /\ \A i \in (Len(o) + 1)..Len(n) :
                 n[i].fid # Top.current_id =>
                     /\ ret # <<>>
                     /\ ret[1].some
                     /\ \E j \in 1..Len(ret[1].val.ident_defs) :
                           /\ ret[1].val.ident_defs[j] = n[i]
                           /\ IsExported(ret[1].val, j - 1)
                     /\ cache' = cache

C14_Provenance ==
    /\ [](\A info \in AllInfos : ProvenanceKept(info))
    /\ [][C14Step]_vars

\* A finished table holds a slot owned by a file it has no import from: the
\* name came through a re-export.
C14_Witness ==
    \E f \in Files :
        /\ cache[f].some
        /\ \E s \in ForeignSlots(cache[f].val) :
              /\ s.fid \notin ImportsOf(f)
              /\ \E g \in ImportsOf(f) : cache[g].some /\ s \in ForeignSlots(cache[g].val)


(***************************************************************************)
(* C15  The external-reference table keeps every recorded attempt: the     *)
(* step that scans an unresolved plain or aliased import, or a module-path *)
(* or module-alias binding, while an external source F is active leaves an *)
(* entry with the occurrence's name and range under (F, name-or-none), and *)
(* no step of a scan removes an entry that get_external_refs yielded       *)
(* before it, so that all of them are in the finished table.               *)
(***************************************************************************)
HasExternEntry(info, f, name, ref) ==
    \E i \in 1..Len(GetExternalRefs(info, f, name)) :
        GetExternalRefs(info, f, name)[i].ref = ref

RecordsAttempt ==
    LET new == stack'[Len(stack')].info
        e == Cur(Top)
    IN /\ (At("Ident") /\ Top.ext_src.some /\ ret # <<>> /\ ImportFailed(Top, e.name)) =>
              HasExternEntry(new, Top.ext_src.val, Some(e.name), NodeRef(e))
       /\ (At("Alias") /\ Top.ext_src.some /\ ret # <<>>
              /\ ImportFailed(Top, e.target.name)) =>
              HasExternEntry(new, Top.ext_src.val, Some(e.target.name), e.target)
       /\ ((At("PathVar") \/ At("ModuleAlias")) /\ Top.ext_src.some) =>
              HasExternEntry(new, Top.ext_src.val, NoneV, NodeRef(e))

KeepsAttempts ==
    LET old == Top.info.external_refs
        new == stack'[Len(stack')].info
    IN \A k \in DOMAIN old : \A i \in 1..Len(old[k]) :
          HasExternEntry(new, k[1], k[2], old[k][i].ref)

C15_KeepsEveryAttempt ==
    [][(stack # <<>> /\ Len(stack') = Len(stack)) => (RecordsAttempt /\ KeepsAttempts)]_vars

\* What holds instead: a recording step leaves exactly its own entry under
\* its key, whatever was there, and every other key as it was.
C15ReplaceStep ==
    (stack # <<>> /\ Len(stack') = Len(stack)) =>
        LET old == Top.info.external_refs
            new == stack'[Len(stack')].info.external_refs
        IN /\ RecordsAttempt
           /\ \A k \in DOMAIN new : Len(new[k]) = 1
           /\ \A k \in DOMAIN old : k \in DOMAIN new
           /\ Cardinality({k \in DOMAIN new : k \notin DOMAIN old \/ new[k] # old[k]}) <= 1

C15_LastAttemptOnly == [][C15ReplaceStep]_vars

\* A finished table of `import "next": x; ..; import "next": x' whose
\* imports both failed: both occurrences are defined locally, the entry of
\* the first is gone.
C15_Witness ==
    \E f \in Files :
        /\ cache[f].some
        /\ files[f] = Some(NamedImportTree)
        /\ IndexOfKey(cache[f].val.ident_defs, f, IdentRef("x", Rng(10, 11))) > 0
        /\ IndexOfKey(cache[f].val.ident_defs, f, IdentRef("x", Rng(60, 61))) > 0
        /\ HasExternEntry(cache[f].val, NextFile(f), Some("x"), IdentRef("x", Rng(60, 61)))
        /\ ~HasExternEntry(cache[f].val, NextFile(f), Some("x"), IdentRef("x", Rng(10, 11)))


(***************************************************************************)
(* C16  Aliased import `import x as y'.  When x resolves in the table of   *)
(* the active external source, the step maps the occurrence of x to the    *)
(* copied-in slot of the exporter's definition, defines y as a slot owned  *)
(* by the importing file and binds y to it, and binds no other name in     *)
(* the Value scope.  When x does not resolve, y is defined and bound the   *)
(* same way and, with a source F active, get_external_refs(F, x) yields    *)
(* the DefId of y with the occurrence of x.                                *)
(***************************************************************************)
ResolvedAlias == At("Alias") /\ ImportResolved(Top, Cur(Top).target.name)

UnresolvedAlias == At("Alias") /\ ImportFailed(Top, Cur(Top).target.name)

\* The slot the step made for the alias name, as a DefId (-1 when absent).
AliasDefId(new) == IndexOfKey(new.info.ident_defs, Top.current_id, NodeRef(Cur(Top))) - 1

DefinesAlias(new) ==
    LET e == Cur(Top) IN
    /\ AliasDefId(new) >= 0
    /\ GetDefById(new.info, AliasDefId(new))
          = Some([fid |-> Top.current_id, def |-> IdentDef(e.name, e.kind, e.range)])
    /\ SmGet(new.id_scope, e.name) = Some(AliasDefId(new))

RecordsTarget(new) ==
    LET x == ExportedSlot(ret[1].val, Cur(Top).target.name)
        d == IndexOfKey(new.info.ident_defs, x.fid, x.ref) - 1
    IN /\ d >= 0
       /\ new.info.ident_defs[d + 1] = x
       /\ x.fid # Top.current_id
       /\ GetRef(new.info, Cur(Top).target) = Some(d)

BindsOnly(new, names) ==
    \A n \in (DOMAIN new.id_scope \cup DOMAIN Top.id_scope) \ names :
        SmGet(new.id_scope, n) = SmGet(Top.id_scope, n)

UnresolvedAliasStep(new) ==
    /\ DefinesAlias(new)
    /\ BindsOnly(new, {Cur(Top).name})
    /\ (Top.ext_src.some /\ ret # <<>>) =>
          \E i \in 1..Len(GetExternalRefs(new.info, Top.ext_src.val,
                                          Some(Cur(Top).target.name))) :
             GetExternalRefs(new.info, Top.ext_src.val, Some(Cur(Top).target.name))[i]
                 = [id |-> Some(AliasDefId(new)), ref |-> Cur(Top).target]

C16Step ==
    LET new == stack'[Len(stack')] IN
    /\ ResolvedAlias =>
          /\ RecordsTarget(new)
          /\ DefinesAlias(new)
          /\ BindsOnly(new, {Cur(Top).name})
    /\ UnresolvedAlias => UnresolvedAliasStep(new)

C16_AliasedImport == [][C16Step]_vars

\* What holds instead: a resolved aliased import also binds x, to the
\* copied-in slot.
C16BothStep ==
    LET new == stack'[Len(stack')] IN
    /\ ResolvedAlias =>
          /\ RecordsTarget(new)
          /\ DefinesAlias(new)
          /\ BindsOnly(new, {Cur(Top).name, Cur(Top).target.name})
          /\ SmGet(new.id_scope, Cur(Top).target.name) = GetRef(new.info, Cur(Top).target)
    /\ UnresolvedAlias => UnresolvedAliasStep(new)

C16_AliasBindsTarget == [][C16BothStep]_vars

\* `import "next": y as z' has just resolved in a scope that did not bind
\* y: the scope now binds y, to a slot owned by another file, besides z.
C16_Witness ==
    /\ stack # <<>>
    /\ files[Top.current_id] = Some(NamedImportTree)
    /\ Top.pc = "scan"
    /\ Top.path = <<3, 1, 2>>
    /\ Top.snaps # <<>>
    /\ "y" \notin DOMAIN Top.snaps[1]
    /\ "y" \in DOMAIN Top.id_scope
    /\ "z" \in DOMAIN Top.id_scope
    /\ GetDefById(Top.info, Top.id_scope["y"]).val.fid # Top.current_id
    /\ GetDefById(Top.info, Top.id_scope["z"]).val.fid = Top.current_id


(***************************************************************************)
(* C17  Namespaces are disjoint and labels are file-global: the Value      *)
(* scope only binds names to slots that are no Label and the Label scope   *)
(* only to Label slots; in every table a Value reference node of its file  *)
(* that resolved points to a slot that is no Label and a Label reference   *)
(* node that resolved points to a Label slot; a step changes the Label     *)
(* scope only at a Label node and never removes a binding from it.  In     *)
(* the local hierarchy the label y defined in the block resolves after     *)
(* the block while the value z defined in the block does not; a reference  *)
(* to label x is undefined while only the value x is bound, and a          *)
(* reference to value x resolves to the value x while a label x is bound.  *)
(***************************************************************************)
IsLabelSlot(info, d) == info.ident_defs[d + 1].def.kind = "Label"

ScopesDisjoint(fr) ==
    /\ \A n \in DOMAIN fr.id_scope : ~IsLabelSlot(fr.info, fr.id_scope[n])
    /\ \A n \in DOMAIN fr.label_scope : IsLabelSlot(fr.info, fr.label_scope[n])

RefsDisjoint(info) ==
    \A n \in NodesOf(info.redefine_current.val) :
        NodeRef(n) \in DOMAIN info.ident_refs =>
            /\ n.kind = "ValRef" => ~IsLabelSlot(info, info.ident_refs[NodeRef(n)])
            /\ n.kind = "LabelRef" => IsLabelSlot(info, info.ident_refs[NodeRef(n)])

LabelsGlobalStep ==
    (stack # <<>> /\ Len(stack') = Len(stack)) =>
        LET new == stack'[Len(stack')] IN
        /\ \A n \in DOMAIN Top.label_scope : n \in DOMAIN new.label_scope
        /\ new.label_scope # Top.label_scope => At("Label")
        /\ At("Label") =>
              /\ new.id_scope = Top.id_scope
              /\ SmGet(new.label_scope, Cur(Top).name)
                    = Some(IndexOfKey(new.info.ident_defs, Top.current_id,
                                      NodeRef(Cur(Top))) - 1)
        /\ (At("Variable") \/ At("Function")) => new.label_scope = Top.label_scope

LabelExample(f, info) ==
    files[f] = Some(LocalTree) =>
        /\ GetRef(info, IdentRef("y", Rng(40, 41))) = Some(SlotId(info, f, "y", 22))
        /\ SlotId(info, f, "y", 22) # SlotId(info, f, "y", 3)
        /\ InUndefined(info, IdentRef("z", Rng(50, 51)))
        /\ SlotId(info, f, "z", 24) >= 0
        /\ InUndefined(info, IdentRef("x", Rng(51, 52)))
        /\ GetRef(info, IdentRef("x", Rng(54, 55))) = Some(SlotId(info, f, "x", 0))
        /\ SlotId(info, f, "x", 52) >= 0

C17_Namespaces ==
    /\ [](\A i \in 1..Len(stack) : ScopesDisjoint(stack[i]))
    /\ [](\A info \in AllInfos : RefsDisjoint(info))
    /\ [](\A f \in Files : cache[f].some => LabelExample(f, cache[f].val))
    /\ [][LabelsGlobalStep]_vars

\* The scan of the local hierarchy has left the block: the label y of the
\* block is bound, the value z of the block is not, and the name y is bound
\* in both namespaces to different slots.
C17_Witness ==
    /\ stack # <<>>
    /\ files[Top.current_id] = Some(LocalTree)
    /\ Top.pc = "scan"
    /\ Top.path = <<6>>
    /\ "y" \in DOMAIN Top.label_scope
    /\ "y" \in DOMAIN Top.id_scope
    /\ Top.label_scope["y"] # Top.id_scope["y"]
    /\ "z" \notin DOMAIN Top.id_scope
    /\ GetRef(Top.info, IdentRef("y", Rng(40, 41))) = Some(Top.label_scope["y"])


(***************************************************************************)
(* C18  Unresolved references become data: the step that scans a Value or  *)
(* Label reference whose name is not bound in its namespace appends the    *)
(* reference, with the name and range of the node, to the undefined list,  *)
(* changes nothing else of the table, and goes on with the next node; no   *)
(* IdentRef is both in the reference table and in the undefined list, and  *)
(* a reference scanned before the definition of its name stays undefined.  *)
(***************************************************************************)
UnboundRef ==
    \/ At("ValRef") /\ Cur(Top).name \notin DOMAIN Top.id_scope
    \/ At("LabelRef") /\ Cur(Top).name \notin DOMAIN Top.label_scope

C18Step ==
    UnboundRef =>
        LET new == stack'[Len(stack')] IN
        /\ Len(stack') = Len(stack)
        /\ new.info = [Top.info EXCEPT !.undefined_refs = Append(@, NodeRef(Cur(Top)))]
        /\ new.pc = "scan"
        /\ new.path = Advance(Top.path)
        /\ new.id_scope = Top.id_scope
        /\ new.label_scope = Top.label_scope

UndefinedApart(info) ==
    /\ \A i \in 1..Len(info.undefined_refs) :
          info.undefined_refs[i] \notin DOMAIN info.ident_refs
    /\ \A i, j \in 1..Len(info.undefined_refs) :
          info.undefined_refs[i] = info.undefined_refs[j] => i = j

ForwardRefExample(f, info) ==
    files[f] = Some(LocalTree) =>
        /\ info.undefined_refs = <<IdentRef("z", Rng(50, 51)), IdentRef("x", Rng(51, 52))>>
        /\ SlotId(info, f, "x", 52) >= 0
        /\ GetRefs(info, SlotId(info, f, "x", 52)) = {}

C18_UndefinedRefs ==
    /\ [][C18Step]_vars
    /\ [](\A info \in AllInfos : UndefinedApart(info))
    /\ [](\A f \in Files : cache[f].some => ForwardRefExample(f, cache[f].val))

\* The scan of the local hierarchy has passed the reference to label x and
\* the definition of label x after it: the reference is in the undefined
\* list behind z@50, the label is bound.
C18_Witness ==
    /\ stack # <<>>
    /\ files[Top.current_id] = Some(LocalTree)
    /\ Top.pc = "scan"
    /\ Top.path = <<9>>
    /\ "x" \in DOMAIN Top.label_scope
    /\ Top.info.undefined_refs = <<IdentRef("z", Rng(50, 51)), IdentRef("x", Rng(51, 52))>>
    /\ IdentRef("x", Rng(51, 52)) \notin DOMAIN Top.info.ident_refs


(***************************************************************************)
(* C19  The active external source is scoped to a module-open node: while  *)
(* a scan is at a position whose innermost enclosing Module node has a     *)
(* concrete path that resolves, the active source is the file the path     *)
(* resolves to; at every other position (outside every Module node, or     *)
(* under one whose path does not resolve or whose source is an             *)
(* expression) there is no active source.  A step at an import or module   *)
(* binding node without an active source makes no call of                  *)
(* get_def_use_inner and adds no external-reference entry, and defines     *)
(* the name of an identifier, alias or module binding as a slot of the     *)
(* importing file; a call is only made for the active source.              *)
(***************************************************************************)
NodeAt(tree, p) == Siblings(tree, p)[p[Len(p)]]

EnclosingModules(fr) ==
    {k \in 1..(Len(fr.path) - 1) : NodeAt(Tree(fr), SubSeq(fr.path, 1, k)).kind = "Module"}

ExpectedSource(fr) ==
    IF EnclosingModules(fr) = {} THEN NoneV
    ELSE LET k == CHOOSE i \in EnclosingModules(fr) : \A j \in EnclosingModules(fr) : j <= i
             m == NodeAt(Tree(fr), SubSeq(fr.path, 1, k))
         IN IF m.src.type = "Path"
            THEN FindSourceByImportPath(fr.current_id, m.src.path)
            ELSE NoneV

SourceScoped(fr) ==
    /\ fr.pc = "scan" => fr.ext_src = ExpectedSource(fr)
    /\ (fr.pc # "scan" /\ fr.ext_src.some) => ~fr.scan_res

NoSourceStep ==
    (Scanning /\ AtNode(Top) /\ ~Top.ext_src.some
        /\ Cur(Top).kind \in {"Ident", "Alias", "PathVar", "ModuleAlias", "Star"}) =>
        LET new == stack'[Len(stack')]
            e == Cur(Top)
        IN /\ Len(stack') = Len(stack)
           /\ call' = <<>>
           /\ new.info.external_refs = Top.info.external_refs
           /\ new.pc = "scan"
           /\ new.path = Advance(Top.path)
           /\ e.kind = "Star" => new.info = Top.info /\ new.id_scope = Top.id_scope
           /\ e.kind # "Star" =>
                 LET d == IndexOfKey(new.info.ident_defs, Top.current_id, NodeRef(e)) - 1
                 IN /\ d >= 0
                    /\ SmGet(new.id_scope, e.name) = Some(d)
                    /\ Len(new.info.ident_defs) = Len(Top.info.ident_defs) + 1
                    /\ new.info.ident_refs = Top.info.ident_refs

CallsActiveSource ==
    (stack # <<>> /\ call = <<>> /\ call' # <<>>) =>
        /\ Top.ext_src.some
        /\ call' = <<Top.ext_src.val>>

C19_SourceScoped ==
    /\ [](\A i \in 1..Len(stack) : SourceScoped(stack[i]))
    /\ [][NoSourceStep /\ CallsActiveSource]_vars

\* A finished table of the hierarchy with an expression source, a nested
\* import from a path and a path that does not resolve: x under the
\* expression and y under the missing path are defined locally and nothing
\* is recorded for x, the nested import from "self" is recorded.
C19_Witness ==
    \E f \in Files :
        /\ cache[f].some
        /\ files[f] = Some(MiscTree)
        /\ LET info == cache[f].val IN
           /\ IndexOfKey(info.ident_defs, f, IdentRef("x", Rng(4, 5))) > 0
           /\ IndexOfKey(info.ident_defs, f, IdentRef("y", Rng(25, 26))) > 0
           /\ IndexOfKey(info.ident_defs, f, IdentRef("y", Rng(30, 31))) > 0
           /\ \A k \in DOMAIN info.external_refs : k[2] # Some("x")
           /\ GetExternalRefs(info, f, Some("y")) # <<>>
           /\ GetExternalRefs(info, NextFile(f), NoneV) # <<>>


(***************************************************************************)
(* C20  The table of a file does not depend on how the file was reached:   *)
(* when a request rooted at f has installed a table for f, and the pass    *)
(* before, on the same files, installed a table for f in a request rooted  *)
(* at another file, the two tables have the same definitions, references,  *)
(* undefined references and exports.  The tables are compared slot by      *)
(* slot, not DefId by DefId, so that the order in which a scope yields its *)
(* values does not count as a difference.                                  *)
(***************************************************************************)
SlotOf(info, d) == info.ident_defs[d + 1]

TableContent(info) ==
    [defs |-> {info.ident_defs[i] : i \in 1..Len(info.ident_defs)},
     refs |-> {<<r, SlotOf(info, info.ident_refs[r])>> : r \in DOMAIN info.ident_refs},
     undefined |-> {info.undefined_refs[i] : i \in 1..Len(info.undefined_refs)},
     exports |-> {<<n, SlotOf(info, info.exports_defs[n])>> : n \in DOMAIN info.exports_defs}]

RootThenImport(f) ==
    /\ phase = "idle"
    /\ root = f
    /\ cache[f].some
    /\ prev.tables[f].some
    /\ prev.root # f

C20_ReachIndependent ==
    \A f \in Files :
        RootThenImport(f) => TableContent(cache[f].val) = TableContent(prev.tables[f].val)

\* A file on an import cycle was first reached as an import, from the file
\* it imports from, and in the next pass analysed as the root: the table of
\* the first pass lacks definitions the table of the second has.
C20_Witness ==
    \E f \in Files :
        /\ RootThenImport(f)
        /\ OnCycle(f)
        /\ prev.root \in ImportsOf(f)
        /\ TableContent(prev.tables[f].val).defs # TableContent(cache[f].val).defs
        /\ TableContent(prev.tables[f].val).defs \subseteq TableContent(cache[f].val).defs

====
